---- MODULE Spec2Model ----
(***************************************************************************)
(* Serverless adapter of the 71-digital site: the Express application that *)
(* a Vercel function wraps, its one-time initialization, and the dispatch  *)
(* of a request through the middleware stack.                              *)
(*                                                                         *)
(* Four revisions of the entrypoint are modelled, selected by `variant`:   *)
(*   "promiseDb"    src/unnamed/part_000        (promise memo, DB check)   *)
(*   "flagChecked"  src/api/index.ts   1 -  86  (boolean flag)             *)
(*   "promisePlain" src/api/index.ts  89 - 208  (promise memo)             *)
(*   "flagPlain"    src/api/index.ts 211 - 273  (boolean flag)             *)
(*                                                                         *)
(* Paths are sequences of one-character strings so that prefix tests and   *)
(* route patterns are computed, not assumed.                               *)
(***************************************************************************)
EXTENDS Integers, Sequences, FiniteSets, TLC

\* ------------------------------------------------------------------ bounds
NReq == 2

\* ------------------------------------------------------------------- paths
Root == <<"/">>
ApiPrefix == <<"/", "a", "p", "i">>
AssetsPrefix == <<"/", "a", "s", "s", "e", "t", "s">>
FaviconPath == <<"/", "f", "a", "v", "i", "c", "o", "n", ".", "p", "n", "g">>

ApiBare == ApiPrefix
ApiSlash == ApiPrefix \o <<"/">>
ApiContact == ApiPrefix \o <<"/", "c">>
ApiLookalike == ApiPrefix \o <<"x">>
AdminPage == <<"/", "a", "d", "m">>
AssetFile == AssetsPrefix \o <<"/", "a">>
AssetMissing == AssetsPrefix \o <<"/", "m">>

Paths ==
    {Root, ApiBare, ApiSlash, ApiContact, ApiLookalike,
     AdminPage, AssetFile, AssetMissing, FaviconPath}

Methods == {"GET", "HEAD", "POST"}

StartsWith(p, pre) ==
    /\ Len(p) >= Len(pre)
    /\ SubSeq(p, 1, Len(pre)) = pre

Drop(p, n) == SubSeq(p, n + 1, Len(p))

\* Express 4 route pattern "/api/*": regexp ^\/api\/(.*)\/?$
MatchApiStar(p) == StartsWith(p, ApiPrefix \o <<"/">>)

\* app.use(mount, fn): the mount path must be a prefix that ends at a
\* path separator.
MountMatches(p, mount) ==
    /\ StartsWith(p, mount)
    /\ \/ Len(p) = Len(mount)
       \/ p[Len(mount) + 1] \in {"/", "."}

\* req.path as seen inside a middleware mounted with app.use(mount, fn):
\* the matched mount path is trimmed and a leading slash is ensured.
TrimPrefix(p, matched) ==
    LET rest == Drop(p, Len(matched))
    IN  IF rest = <<>> \/ rest[1] # "/" THEN <<"/">> \o rest ELSE rest

\* app.use("*", fn): the layer matches every path and the matched part is
\* the whole path, so the handler's req.path is what TrimPrefix leaves.
StarReqPath(p) == TrimPrefix(p, p)

\* ---------------------------------------------------------- build output
\* dist/public, dist/public/assets and dist/public/index.html on disk.
\* assets = "unreadable" is an entry that exists but cannot be listed.
FsStates ==
    {f \in [dist : BOOLEAN, assets : {"absent", "dir", "unreadable"},
            index : BOOLEAN] :
        (~f.dist) => (f.assets = "absent" /\ ~f.index)}

FullBuild == [dist |-> TRUE, assets |-> "dir", index |-> TRUE]

BuildIntact(f) == f.dist /\ f.index /\ f.assets # "unreadable"

\* --------------------------------------------------------------- layers
Layer(kind, method, path, tag) ==
    [kind |-> kind, method |-> method, path |-> path, tag |-> tag]

JsonParser == Layer("parser", "", <<>>, "json")
UrlencodedParser == Layer("parser", "", <<>>, "urlencoded")
RequestLogger == Layer("logger", "", <<>>, "request")
AssetsLogger == Layer("logger", "", AssetsPrefix, "asset")
RealRoute(m, p) == Layer("route", m, p, "real")
ApiFallback(reason) == Layer("apiFallback", "", <<>>, reason)
StaticAssets == Layer("static", "", AssetsPrefix, "assets")
StaticRoot == Layer("static", "", <<>>, "dist")
CatchAll(tag) == Layer("catchAll", "", <<>>, tag)
ErrorHandler(tag) == Layer("errorHandler", "", <<>>, tag)

\* the route table of server/routes (registerRoutes), in registration order
RouteTable == <<RealRoute("GET", ApiContact), RealRoute("POST", ApiContact)>>

\* ------------------------------------------------------------ responses
Response(status, body, ctype, by) ==
    [status |-> status, body |-> body, ctype |-> ctype, by |-> by]

NoResponse == Response(0, "", "", "")

\* an error travelling through the stack: err.status, err.statusCode and
\* err.message (0 and "" when unset), and whether a response had already
\* been sent when it was raised (res.headersSent)
ErrorValue(status, statusCode, message, headersSent) ==
    [raised |-> TRUE, status |-> status, statusCode |-> statusCode,
     message |-> message, headersSent |-> headersSent]

NoErr == [raised |-> FALSE, status |-> 0, statusCode |-> 0, message |-> "",
          headersSent |-> FALSE]
Err(status, message) == ErrorValue(status, 0, message, FALSE)

\* what a layer did: answered (res, after `sends` calls of res.send/json,
\* handling error err) or called next(err)
AnswerErr(res, err, sends) ==
    [done |-> TRUE, res |-> res, err |-> err, sends |-> sends]
Answer(res) == AnswerErr(res, NoErr, 1)
NextLayer(err) == [done |-> FALSE, res |-> NoResponse, err |-> err, sends |-> 0]

IsPageMethod(m) == m = "GET" \/ m = "HEAD"

SpaDocument(by) == Response(200, "index.html", "text/html", by)

\* mutant: the fallback is registered for every path
NoDatabaseHandlerAllPaths(rq) ==
    Answer(Response(500, "Database not configured", "json", "apiFallback"))

\* app.all("/api/*") installed when DATABASE_URL is unset
NoDatabaseHandler(rq) ==
    IF MatchApiStar(rq.path)
    THEN Answer(Response(500, "Database not configured", "json", "apiFallback"))
    ELSE NextLayer(NoErr)

\* app.all("/api/*") installed when importing/registering routes threw
RouteErrorHandler(rq) ==
    IF MatchApiStar(rq.path)
    THEN Answer(Response(500, "Server configuration error", "json", "apiFallback"))
    ELSE NextLayer(NoErr)

\* a route of the real table matches: HEAD is answered by the GET route
RouteMatches(layer, rq) ==
    /\ layer.path = rq.path
    /\ \/ layer.method = rq.method
       \/ (layer.method = "GET" /\ rq.method = "HEAD")

RouteResult == Response(200, "route result", "json", "route")

\* a route of the real table: it answers, or raises rq.fault (before or
\* after it has sent its answer)
RouteHandler(layer, rq) ==
    IF ~RouteMatches(layer, rq) THEN NextLayer(NoErr)
    ELSE IF rq.fault.raised THEN NextLayer(rq.fault)
    ELSE Answer(RouteResult)

\* express.static(root) mounted at layer.path: serves an existing file to
\* GET/HEAD and calls next() otherwise
ServeStatic(layer, rq, f) ==
    LET mounted == layer.path = <<>> \/ MountMatches(rq.path, layer.path)
        rel == IF layer.path = <<>> THEN rq.path
               ELSE TrimPrefix(rq.path, layer.path)
    IN  IF ~IsPageMethod(rq.method) \/ ~mounted THEN NextLayer(NoErr)
        ELSE IF layer.tag = "assets"
        THEN IF f.assets = "dir" /\ rel = Drop(AssetFile, Len(AssetsPrefix))
             THEN Answer(Response(200, "asset file", "application/javascript", "static"))
             ELSE NextLayer(NoErr)
        ELSE IF f.dist /\ f.index /\ rel = Root
             THEN Answer(SpaDocument("static"))
        ELSE IF f.dist /\ rel = FaviconPath
             THEN Answer(Response(200, "favicon", "image/png", "static"))
        ELSE IF f.assets = "dir" /\ rel = AssetFile
             THEN Answer(Response(200, "asset file", "application/javascript", "static"))
        ELSE NextLayer(NoErr)

ApiNotFound == Response(404, "API endpoint not found", "json", "catchAll")
NotFound == Response(404, "Not found", "json", "catchAll")
NotBuilt == Response(500, "Application not built correctly", "json", "catchAll")
StaticNotFound == Response(500, "Static files not found", "json", "catchAll")

\* mutant: only GET is treated as page navigation
SpaFallbackDbGetOnly(rq, f) ==
    LET reqPath == StarReqPath(rq.path)
    IN  IF StartsWith(reqPath, ApiPrefix) THEN Answer(ApiNotFound)
        ELSE IF StartsWith(reqPath, AssetsPrefix) \/ reqPath = FaviconPath
        THEN NextLayer(NoErr)
        ELSE IF rq.method # "GET" THEN Answer(NotFound)
        ELSE IF f.index THEN Answer(SpaDocument("catchAll"))
        ELSE NextLayer(Err(0, "ENOENT index.html"))

\* part_000: catch-all registered when index.html exists at initialization
SpaFallbackDb(rq, f) ==
    LET reqPath == StarReqPath(rq.path)
    IN  IF StartsWith(reqPath, ApiPrefix) THEN Answer(ApiNotFound)
        ELSE IF StartsWith(reqPath, AssetsPrefix) \/ reqPath = FaviconPath
        THEN NextLayer(NoErr)
        ELSE IF ~IsPageMethod(rq.method) THEN Answer(NotFound)
        ELSE IF f.index THEN Answer(SpaDocument("catchAll"))
        ELSE NextLayer(Err(0, "ENOENT index.html"))

\* mutant: the two branches are swapped
MissingIndexFallbackSwapped(rq) ==
    LET reqPath == StarReqPath(rq.path)
    IN  IF StartsWith(reqPath, ApiPrefix) THEN Answer(NotBuilt)
        ELSE Answer(ApiNotFound)

\* part_000: catch-all registered when index.html is missing at initialization
MissingIndexFallback(rq) ==
    LET reqPath == StarReqPath(rq.path)
    IN  IF StartsWith(reqPath, ApiPrefix) THEN Answer(ApiNotFound)
        ELSE Answer(NotBuilt)

\* index.ts 50-69: catch-all with sendFile and an error callback
SpaFallbackChecked(rq, f) ==
    LET reqPath == StarReqPath(rq.path)
    IN  IF StartsWith(reqPath, ApiPrefix) THEN Answer(ApiNotFound)
        ELSE IF ~IsPageMethod(rq.method) THEN Answer(NotFound)
        ELSE IF f.index THEN Answer(SpaDocument("catchAll"))
        ELSE NextLayer(Err(404, "ENOENT index.html"))

\* index.ts 131-157: catch-all that tests index.html on every request
SpaFallbackExists(rq, f) ==
    LET reqPath == StarReqPath(rq.path)
    IN  IF StartsWith(reqPath, ApiPrefix) THEN Answer(ApiNotFound)
        ELSE IF ~IsPageMethod(rq.method) THEN Answer(NotFound)
        ELSE IF f.index THEN Answer(SpaDocument("catchAll"))
        ELSE Answer(NotBuilt)

\* index.ts 161-167: catch-all registered when dist/public is missing
NoStaticFallback(rq) ==
    LET reqPath == StarReqPath(rq.path)
    IN  IF StartsWith(reqPath, ApiPrefix) THEN Answer(ApiNotFound)
        ELSE Answer(StaticNotFound)

\* index.ts 254-256: catch-all that always sends index.html
SpaFallbackPlain(rq, f) ==
    IF f.index THEN Answer(SpaDocument("catchAll"))
    ELSE NextLayer(Err(404, "ENOENT index.html"))

CatchAllHandler(layer, rq, f) ==
    CASE layer.tag = "spaDb" -> SpaFallbackDb(rq, f)
      [] layer.tag = "missingIndex" -> MissingIndexFallback(rq)
      [] layer.tag = "spaChecked" -> SpaFallbackChecked(rq, f)
      [] layer.tag = "spaExists" -> SpaFallbackExists(rq, f)
      [] layer.tag = "noStatic" -> NoStaticFallback(rq)
      [] OTHER -> SpaFallbackPlain(rq, f)

\* err.status || err.statusCode || 500
ErrorStatus(err) ==
    IF err.status # 0 THEN err.status
    ELSE IF err.statusCode # 0 THEN err.statusCode
    ELSE 500

\* err.message || "Internal Server Error"
ErrorMessage(err) ==
    IF err.message # "" THEN err.message ELSE "Internal Server Error"

\* the answer written by the 4-argument error middleware
ExpressErrorHandler(err) ==
    Response(ErrorStatus(err), ErrorMessage(err), "json", "errorHandler")

\* the 4-argument error middleware is reached with err.  The revisions of
\* part_000 and index.ts 172-179 write only `if (!res.headersSent)`; the
\* flag-guarded revisions write unconditionally, a second time when the
\* route had already answered.
ErrorLayer(layer, err) ==
    IF ~err.headersSent THEN AnswerErr(ExpressErrorHandler(err), err, 1)
    ELSE IF layer.tag = "guarded" THEN AnswerErr(RouteResult, err, 1)
    ELSE AnswerErr(RouteResult, err, 2)

\* finalhandler: what Express answers when the stack is exhausted; it
\* writes nothing when a response has already been sent
FinalHandler(err) ==
    IF err.raised /\ err.headersSent THEN RouteResult
    ELSE IF err.raised
    THEN Response(IF err.status # 0 THEN err.status
                  ELSE IF err.statusCode # 0 THEN err.statusCode ELSE 500,
                  "error page", "text/html", "finalhandler")
    ELSE Response(404, "Cannot METHOD path", "text/html", "finalhandler")

\* one layer of the stack applied to a request
ApplyLayer(layer, rq, err, f) ==
    IF err.raised
    THEN IF layer.kind = "errorHandler"
         THEN ErrorLayer(layer, err)
         ELSE NextLayer(err)
    ELSE CASE layer.kind = "route" -> RouteHandler(layer, rq)
           [] layer.kind = "apiFallback" ->
                IF layer.tag = "nodb" THEN NoDatabaseHandler(rq)
                ELSE RouteErrorHandler(rq)
           [] layer.kind = "static" -> ServeStatic(layer, rq, f)
           [] layer.kind = "catchAll" -> CatchAllHandler(layer, rq, f)
           [] OTHER -> NextLayer(NoErr)

\* app.handle: walk the stack from layer i; the result says what was
\* answered, which error (if any) was being handled, and how many times a
\* response was written
RECURSIVE Walk(_, _, _, _, _)
Walk(stk, i, rq, err, f) ==
    IF i > Len(stk) THEN AnswerErr(FinalHandler(err), err, 1)
    ELSE LET r == ApplyLayer(stk[i], rq, err, f)
         IN  IF r.done THEN r ELSE Walk(stk, i + 1, rq, r.err, f)

HandleRequest(stk, rq, f) == Walk(stk, 1, rq, NoErr, f)

\* ---------------------------------------------------------------- state
VARIABLES
    variant,                \* which revision of the entrypoint is deployed
    hasDatabase,            \* !!process.env.DATABASE_URL
    fs,                     \* build output on disk
    fsChanged,              \* TRUE once fs has changed since process start
    stack,                  \* app._router.stack, in registration order
    initializationPromise,  \* "null" | "pending" | "resolved" | "rejected"
    handler,                \* TRUE once handler = serverless(app)
    appInitialized,         \* flag of the flag-guarded revisions
    handlerPromise,         \* TRUE once handlerPromise is assigned
    initPc,                 \* position of the memoized initializeApp call
    initCalls,              \* invocations of initializeApp
    bodyRuns,               \* executions of the registration body
    outcome,                \* how the API part of initialization ended
    initFs,                 \* fs as sampled by the registration body
    req,                    \* per invocation of vercelHandler
    last,                   \* the answer sent by the step just taken, if any
    markerWrites,           \* assignments to the initialization marker
    handlerWrites,          \* assignments to the route-dispatch handler
    sessions,               \* the admin session records of the store
    clock,                  \* current time
    minted,                 \* number of tokens minted so far
    revoked,                \* tokens whose session was deleted by a logout
    issued,                 \* every session record ever created
    sres,                   \* result of the session operation just performed
    timeout,                \* the timeout argument of fetchWithTimeout, in ms
    fetchState,             \* "idle" | "pending" | "settled"
    timerState,             \* "unset" | "armed" | "fired"
    first,                  \* which of the two raced events happened first
    fetched,                \* what fetch settled with
    raceOutcome,            \* what the Promise.race promise settled with
    raceSettles,            \* times the race promise changed state
    delivered,              \* what the default queryFn handed to the query
    call                    \* the apiRequest / getQueryFn call just made

adapterVars ==
    <<variant, hasDatabase, fs, fsChanged, stack, initializationPromise,
      handler, appInitialized, handlerPromise, initPc, initCalls, bodyRuns,
      outcome, initFs, req, last, markerWrites, handlerWrites>>

sessVars == <<sessions, clock, minted, revoked, issued, sres>>

clientVars ==
    <<timeout, fetchState, timerState, first, fetched, raceOutcome,
      raceSettles, delivered, call>>

vars == <<adapterVars, sessVars, clientVars>>

\* ---------------------------------------------------- admin sessions
\* The session manager (login, validation, logout, expiry) as section 4.2
\* of the specification describes it.
MaxTokens == 3
MaxClock == 3
SessionTtl == 2

Admins == {"alice", "bob"}
Usernames == Admins \cup {"mallory"}
Passwords == {"pw-alice", "pw-bob", "wrong"}

\* the password stored (salted and hashed) for an admin
PasswordOf(admin) == IF admin = "alice" THEN "pw-alice" ELSE "pw-bob"

\* tokens a caller may present: those mintable, and 0, which is never minted
Tokens == 0..MaxTokens

Session(token, admin, expiry) ==
    [token |-> token, admin |-> admin, expiry |-> expiry]

SessionResult(op, token, admin, ok) ==
    [op |-> op, token |-> token, admin |-> admin, ok |-> ok]

NoSessionResult == SessionResult("", 0, "", FALSE)

\* look up the admin by username and verify the password
Authenticates(username, password) ==
    username \in Admins /\ password = PasswordOf(username)

\* the session records stored under a token
Lookup(store, token) == {s \in store : s.token = token}

\* mutant: a session is live for as long as its record is in the store
LiveWhileStored(s, now) == TRUE

\* a session is live until the current time has passed its expiry
Live(s, now) == now <= s.expiry

\* validation: the session must exist and must not have expired
ValidSessions(store, token, now) ==
    {s \in Lookup(store, token) : Live(s, now)}

\* mutant: logout leaves the session record in the store
RevokeNothing(store, token) == store

\* logout: delete the session record of the token
Revoke(store, token) == store \ Lookup(store, token)

\* cleanup sweep: delete the records that have expired
Sweep(store, now) == {s \in store : Live(s, now)}

\* mutant: logging out a token that has no session is an error
LogoutOkIfStored(store, token) == Lookup(store, token) # {}

\* logout succeeds whether or not the token has a session
LogoutOk(store, token) == TRUE

\* mutant: a login reuses the first token
ReuseToken(count) == 1

\* the token minted by a login is one that was never minted before
NextToken(count) == count + 1

\* ----------------------------------------------------- browser client
\* client/src/lib/queryClient.ts: what fetch can settle with, and the
\* functions that turn it into the result of a request or a query.
DefaultTimeout == 10000
Timeouts == {DefaultTimeout, DefaultTimeout \div 4}

Statuses == {200, 204, 299, 300, 401, 404, 500}

\* res.statusText
StatusText(status) ==
    CASE status = 200 -> "OK"
      [] status = 204 -> "No Content"
      [] status = 300 -> "Multiple Choices"
      [] status = 401 -> "Unauthorized"
      [] status = 404 -> "Not Found"
      [] status = 500 -> "Internal Server Error"
      [] OTHER -> ""

\* body texts: none, a JSON document, and text that is not JSON
JsonText == "{\"ok\":true}"
Bodies == {"", JsonText, "plain text"}

HttpResponse(status, body) ==
    [kind |-> "response", status |-> status, body |-> body,
     statusText |-> StatusText(status)]

Responses == {HttpResponse(st, b) : st \in Statuses, b \in Bodies}

Resolved(value) == [kind |-> "resolved", value |-> value]
Rejected(message) == [kind |-> "rejected", value |-> message]
Pending == [kind |-> "pending", value |-> ""]

\* fetch rejects when the request cannot be made at all
NetworkError == Rejected("Failed to fetch")

\* what `await fetch(...)` can produce
FetchOutcomes == {Resolved(r) : r \in Responses} \cup {NetworkError}

\* mutant: redirects count as success
IsOkBelow400(status) == status < 400

\* res.ok
IsOk(status) == status >= 200 /\ status <= 299

\* `${res.status}: ${text}` with text = (await res.text()) || res.statusText
NotOkMessage(res) ==
    <<res.status, ": ", IF res.body # "" THEN res.body ELSE res.statusText>>

\* throwIfResNotOk: returns for an ok response, throws otherwise
ThrowIfResNotOk(res) ==
    IF IsOk(res.status) THEN Resolved("") ELSE Rejected(NotOkMessage(res))

\* res.json(): the parsed document, or a SyntaxError
ParseJson(body) ==
    IF body = JsonText THEN Resolved([ok |-> TRUE])
    ELSE Rejected("SyntaxError")

\* apiRequest, given what its fetch settled with
ApiRequest(got) ==
    IF got.kind = "rejected" THEN got
    ELSE LET checked == ThrowIfResNotOk(got.value)
         IN  IF checked.kind = "rejected" THEN checked
             ELSE Resolved(got.value)

\* mutant: a 401 gives null whatever the setting
ReturnsNullOn401(on401, status) == status = 401

\* `unauthorizedBehavior === "returnNull" && res.status === 401`
ReturnsNull(on401, status) == on401 = "returnNull" /\ status = 401

\* the function made by getQueryFn({ on401 }), given what fetch settled with
GetQueryFn(on401, got) ==
    IF got.kind = "rejected" THEN got
    ELSE IF ReturnsNull(on401, got.value.status) THEN Resolved("null")
    ELSE LET checked == ThrowIfResNotOk(got.value)
         IN  IF checked.kind = "rejected" THEN checked
             ELSE ParseJson(got.value.body)

\* `Request timeout after ${timeout}ms`
TimeoutMessage(ms) == <<"Request timeout after ", ms, "ms">>

\* mutant: the promise takes the value of whichever event comes last
RaceLastWins(current, candidate) == candidate

\* Promise.race: the first input promise to settle settles the result;
\* later settlements are ignored
RaceSettle(current, candidate) ==
    IF current = Pending THEN candidate ELSE current

\* the default queryFn after `await fetchWithTimeout(...)`
QueryFn(raced) ==
    IF raced.kind = "rejected" THEN raced
    ELSE IF raced.value.status = 401 THEN Rejected("Unauthorized")
    ELSE LET checked == ThrowIfResNotOk(raced.value)
         IN  IF checked.kind = "rejected" THEN checked
             ELSE ParseJson(raced.value.body)

NoCall == [fn |-> "", on401 |-> "", got |-> Pending, out |-> Pending]

ClientInit ==
    /\ timeout = DefaultTimeout
    /\ fetchState = "idle"
    /\ timerState = "unset"
    /\ first = "none"
    /\ fetched = Pending
    /\ raceOutcome = Pending
    /\ raceSettles = 0
    /\ delivered = Pending
    /\ call = NoCall

SessionInit ==
    /\ sessions = {}
    /\ clock = 0
    /\ minted = 0
    /\ revoked = {}
    /\ issued = {}
    /\ sres = NoSessionResult

Variants == {"promiseDb", "flagChecked", "promisePlain", "flagPlain"}
PromiseVariants == {"promiseDb", "promisePlain"}
FlagVariants == {"flagChecked", "flagPlain"}

Reqs == 1..NReq

\* layers registered at module load, before any request
BaseStack(v) ==
    IF v = "promiseDb"
    THEN <<JsonParser, UrlencodedParser, RequestLogger>>
    ELSE <<JsonParser, UrlencodedParser>>

NoFs == [dist |-> FALSE, assets |-> "absent", index |-> FALSE]
NoAnswer ==
    [method |-> "", path |-> <<>>, res |-> NoResponse, via |-> "",
     err |-> NoErr, sends |-> 0, failed |-> FALSE]

Init ==
    /\ variant \in Variants
    /\ hasDatabase \in BOOLEAN
    /\ (variant # "promiseDb") => hasDatabase
    /\ fs \in FsStates
    /\ fsChanged = FALSE
    /\ stack = BaseStack(variant)
    /\ initializationPromise = "null"
    /\ handler = FALSE
    /\ appInitialized = FALSE
    /\ handlerPromise = FALSE
    /\ initPc = "notStarted"
    /\ initCalls = 0
    /\ bodyRuns = 0
    /\ outcome = "undecided"
    /\ initFs = NoFs
    /\ req = [r \in Reqs |->
                [pc |-> "idle", seen |-> "undecided", answered |-> FALSE]]
    /\ last = NoAnswer
    /\ markerWrites = 0
    /\ handlerWrites = 0
    /\ SessionInit
    /\ ClientInit

\* ------------------------------------------------- registration sequences
\* registerRoutes(app): the first k routes of the table are on the stack
\* when it returns (k = all) or throws (before the first route or after the
\* last one)
RegisteredRoutes(k) == SubSeq(RouteTable, 1, k)

FailPoints == {0, Len(RouteTable)}

Registered(ok, layers) == [ok |-> ok, layers |-> layers]

\* mutant: the SPA catch-all is registered whatever the disk holds
StaticPartDbUnsampled(f) ==
    IF f.dist /\ f.assets = "unreadable"
    THEN Registered(FALSE, <<>>)
    ELSE Registered(TRUE,
            (IF f.dist THEN <<AssetsLogger, StaticAssets>> ELSE <<>>)
            \o <<CatchAll("spaDb")>>
            \o <<ErrorHandler("guarded")>>)

\* part_000 lines 59-159: static, catch-all and error handler
StaticPartDb(f) ==
    IF f.dist /\ f.assets = "unreadable"
    THEN Registered(FALSE, <<>>)
    ELSE Registered(TRUE,
            (IF f.dist THEN <<AssetsLogger, StaticAssets>> ELSE <<>>)
            \o (IF f.index THEN <<CatchAll("spaDb")>>
                ELSE <<CatchAll("missingIndex")>>)
            \o <<ErrorHandler("guarded")>>)

\* index.ts lines 23-70: error handler, then static and catch-all
StaticPartChecked(f) ==
    Registered(TRUE,
        <<ErrorHandler("unguarded")>>
        \o (IF f.dist THEN <<StaticAssets, StaticRoot, CatchAll("spaChecked")>>
            ELSE <<>>))

\* index.ts lines 110-179: static and catch-all, then error handler
StaticPartPlain(f) ==
    Registered(TRUE,
        (IF f.dist THEN <<StaticAssets, StaticRoot, CatchAll("spaExists")>>
         ELSE <<CatchAll("noStatic")>>)
        \o <<ErrorHandler("guarded")>>)

\* index.ts lines 232-257: error handler, then static and catch-all
StaticPartFlagPlain(f) ==
    Registered(TRUE,
        <<ErrorHandler("unguarded")>>
        \o (IF f.dist THEN <<StaticAssets, StaticRoot, CatchAll("spaAlways")>>
            ELSE <<>>))

StaticPart(v, f) ==
    CASE v = "promiseDb" -> StaticPartDb(f)
      [] v = "flagChecked" -> StaticPartChecked(f)
      [] v = "promisePlain" -> StaticPartPlain(f)
      [] OTHER -> StaticPartFlagPlain(f)

\* -------------------------------------------------------------- actions
\* mutant: the memo is consulted only once it has completed
NeedsInitUntilSettled(promise) == promise \in {"null", "pending"}

\* `if (!initializationPromise)` of the promise-memoized revisions
NeedsInit(promise) == promise = "null"

\* mutant: the request goes on without waiting for the promise to settle
SettledOrPending(promise) == promise # "null"

\* `await initializationPromise`: the request resumes once it has settled
Settled(promise) == promise \in {"resolved", "rejected"}

\* `if (!appInitialized)` of the flag-guarded revisions
FlagNeedsInit(flag) == ~flag

\* mutant: an invocation can be delivered between two microtasks
NoMicrotaskPriority == FALSE

\* a continuation that is already queued as a microtask runs before the
\* platform can deliver another invocation
MicrotaskPending ==
    \/ initPc \in {"returned", "threw"}
    \/ \E r \in Reqs : req[r].pc = "initReturned"

SetPc(r, pc) == [req EXCEPT ![r].pc = pc]

\* initializeApp of part_000 up to its first await (lines 22-39); without a
\* database the whole body runs synchronously
StartInitDb ==
    IF hasDatabase
    THEN /\ initPc' = "importing"
         /\ UNCHANGED <<stack, outcome, bodyRuns, initFs>>
    ELSE LET part == StaticPartDb(fs)
         IN  /\ stack' = stack \o <<ApiFallback("nodb")>> \o part.layers
             /\ outcome' = "nodb"
             /\ bodyRuns' = bodyRuns + 1
             /\ initFs' = fs
             /\ initPc' = IF part.ok THEN "returned" ELSE "threw"

\* initializeApp of index.ts 105-108 up to `await registerRoutes(app)`
StartInitPlain ==
    /\ initPc' = "registering"
    /\ UNCHANGED <<stack, outcome, bodyRuns, initFs>>

\* vercelHandler is invoked for request r
Arrive(r) ==
    /\ req[r].pc = "idle"
    /\ r > 1 => req[r - 1].pc # "idle"
    /\ ~MicrotaskPending
    /\ IF variant \in PromiseVariants
       THEN /\ IF NeedsInit(initializationPromise)
               THEN /\ initializationPromise' = "pending"
                    /\ markerWrites' = markerWrites + 1
                    /\ initCalls' = initCalls + 1
                    /\ IF variant = "promiseDb" THEN StartInitDb
                       ELSE StartInitPlain
               ELSE UNCHANGED <<initializationPromise, initCalls, initPc,
                                stack, outcome, bodyRuns, initFs,
                                markerWrites>>
            /\ req' = SetPc(r, "awaiting")
       ELSE /\ IF FlagNeedsInit(appInitialized)
               THEN /\ initCalls' = initCalls + 1
                    /\ req' = SetPc(r, "registering")
               ELSE /\ req' = SetPc(r, "dispatching")
                    /\ UNCHANGED initCalls
            /\ UNCHANGED <<initializationPromise, initPc, stack, outcome,
                           bodyRuns, initFs, markerWrites>>
    /\ last' = NoAnswer
    /\ UNCHANGED sessVars
    /\ UNCHANGED clientVars
    /\ UNCHANGED <<variant, hasDatabase, fs, fsChanged, handler,
                   appInitialized, handlerPromise, handlerWrites>>

\* part_000 lines 38-53: the dynamic import settles
InitImported ==
    /\ variant = "promiseDb"
    /\ initPc = "importing"
    /\ \E ok \in BOOLEAN :
        IF ok
        THEN /\ initPc' = "registering"
             /\ UNCHANGED <<stack, outcome, bodyRuns, initFs>>
        ELSE LET part == StaticPartDb(fs)
             IN  /\ stack' = stack \o <<ApiFallback("routeerr")>> \o part.layers
                 /\ outcome' = "routeerr"
                 /\ bodyRuns' = bodyRuns + 1
                 /\ initFs' = fs
                 /\ initPc' = IF part.ok THEN "returned" ELSE "threw"
    /\ last' = NoAnswer
    /\ UNCHANGED sessVars
    /\ UNCHANGED clientVars
    /\ UNCHANGED <<variant, hasDatabase, fs, fsChanged, initializationPromise,
                   handler, appInitialized, handlerPromise, initCalls, req,
                   markerWrites, handlerWrites>>

\* `await registerRoutes(app)` of the memoized initializeApp settles and the
\* rest of the body runs
InitRegistered ==
    /\ variant \in PromiseVariants
    /\ initPc = "registering"
    /\ \E k \in FailPoints, ok \in BOOLEAN :
        /\ ok => k = Len(RouteTable)
        /\ IF variant = "promiseDb"
           THEN LET part == StaticPartDb(fs)
                IN  /\ stack' = stack \o RegisteredRoutes(k)
                          \o (IF ok THEN <<>> ELSE <<ApiFallback("routeerr")>>)
                          \o part.layers
                    /\ outcome' = IF ok THEN "routes" ELSE "routeerr"
                    /\ bodyRuns' = bodyRuns + 1
                    /\ initFs' = fs
                    /\ initPc' = IF part.ok THEN "returned" ELSE "threw"
           ELSE IF ok
           THEN /\ stack' = stack \o RegisteredRoutes(k)
                      \o StaticPartPlain(fs).layers
                /\ outcome' = "routes"
                /\ bodyRuns' = bodyRuns + 1
                /\ initFs' = fs
                /\ initPc' = "returned"
           ELSE /\ stack' = stack \o RegisteredRoutes(k)
                /\ outcome' = "failed"
                /\ initPc' = "threw"
                /\ UNCHANGED <<bodyRuns, initFs>>
    /\ last' = NoAnswer
    /\ UNCHANGED sessVars
    /\ UNCHANGED clientVars
    /\ UNCHANGED <<variant, hasDatabase, fs, fsChanged, initializationPromise,
                   handler, appInitialized, handlerPromise, initCalls, req,
                   markerWrites, handlerWrites>>

\* whether the chain on initializeApp() leaves a handler behind.  built says
\* whether serverless(app) can construct one (part_000 tries it in .then
\* and again in .catch).  part_000 has a .catch that constructs the handler
\* after a rejected initializeApp; index.ts 186-197 has only .then.
HandlerCreated(v, pc, built) ==
    built /\ (v = "promiseDb" \/ pc = "returned")

\* the .then / .catch chained on initializeApp() runs
InitSettle ==
    /\ variant \in PromiseVariants
    /\ initPc \in {"returned", "threw"}
    /\ \E built \in BOOLEAN :
        IF HandlerCreated(variant, initPc, built)
        THEN /\ handler' = TRUE
             /\ handlerWrites' = handlerWrites + 1
             /\ initializationPromise' = "resolved"
        ELSE /\ initializationPromise' = "rejected"
             /\ UNCHANGED <<handler, handlerWrites>>
    /\ initPc' = "settled"
    /\ last' = NoAnswer
    /\ UNCHANGED sessVars
    /\ UNCHANGED clientVars
    /\ UNCHANGED <<variant, hasDatabase, fs, fsChanged, stack, appInitialized,
                   handlerPromise, initCalls, bodyRuns, outcome, initFs, req,
                   markerWrites>>

\* flag-guarded revisions: request r's own `await registerRoutes(app)`
\* settles and the rest of its initializeApp body runs
FlagRegistered(r) ==
    /\ variant \in FlagVariants
    /\ req[r].pc = "registering"
    /\ \E k \in FailPoints, ok \in BOOLEAN :
        /\ ok => k = Len(RouteTable)
        /\ IF ok
           THEN /\ stack' = stack \o RegisteredRoutes(k)
                      \o StaticPart(variant, fs).layers
                /\ bodyRuns' = bodyRuns + 1
                /\ initFs' = fs
                /\ appInitialized' = TRUE
                /\ markerWrites' = markerWrites + 1
                /\ outcome' = "routes"
                /\ req' = SetPc(r, "initReturned")
           ELSE /\ stack' = stack \o RegisteredRoutes(k)
                /\ req' = SetPc(r, "rejected")
                /\ UNCHANGED <<bodyRuns, initFs, appInitialized, outcome,
                               markerWrites>>
    /\ last' = NoAnswer
    /\ UNCHANGED sessVars
    /\ UNCHANGED clientVars
    /\ UNCHANGED <<variant, hasDatabase, fs, fsChanged, initializationPromise,
                   handler, handlerPromise, initPc, initCalls, handlerWrites>>

\* flag-guarded revisions: handlerPromise = Promise.resolve(serverless(app))
FlagCreateHandler(r) ==
    /\ variant \in FlagVariants
    /\ req[r].pc = "initReturned"
    /\ handlerPromise' = TRUE
    /\ handlerWrites' = handlerWrites + 1
    /\ req' = SetPc(r, "dispatching")
    /\ last' = NoAnswer
    /\ UNCHANGED sessVars
    /\ UNCHANGED clientVars
    /\ UNCHANGED <<variant, hasDatabase, fs, fsChanged, stack,
                   initializationPromise, handler, appInitialized, initPc,
                   initCalls, bodyRuns, outcome, initFs, markerWrites>>

\* the outer catch of vercelHandler answers 500 when nothing was sent
OuterCatch(r) ==
    [method |-> "", path |-> <<>>,
     res |-> Response(500, "Internal server error", "json", "outerCatch"),
     via |-> "outerCatch", err |-> NoErr, sends |-> 1, failed |-> FALSE]

\* promise-memoized revisions: `await initializationPromise` resumes
Resume(r) ==
    /\ variant \in PromiseVariants
    /\ req[r].pc = "awaiting"
    /\ Settled(initializationPromise)
    /\ IF initializationPromise = "rejected" \/ ~handler
       THEN /\ last' = OuterCatch(r)
            /\ req' = [req EXCEPT ![r].pc = "done", ![r].seen = outcome,
                                  ![r].answered = TRUE]
       ELSE /\ req' = [req EXCEPT ![r].pc = "dispatching", ![r].seen = outcome]
            /\ last' = NoAnswer
    /\ UNCHANGED sessVars
    /\ UNCHANGED clientVars
    /\ UNCHANGED <<variant, hasDatabase, fs, fsChanged, stack,
                   initializationPromise, handler, appInitialized,
                   handlerPromise, initPc, initCalls, bodyRuns, outcome,
                   initFs, markerWrites, handlerWrites>>

\* errors a route of the table can raise: a bare Error, one carrying both
\* status and statusCode, one carrying statusCode only, and one raised after
\* the route has already sent its answer
RouteFaults ==
    { ErrorValue(0, 0, "", FALSE),
      ErrorValue(400, 403, "bad request", FALSE),
      ErrorValue(0, 403, "forbidden", FALSE),
      ErrorValue(0, 0, "late failure", TRUE) }

Input(m, p, fault, handlerFault) ==
    [method |-> m, path |-> p, fault |-> fault, handlerFault |-> handlerFault]

\* paths on which HEAD is explored besides GET and POST: a page, the path
\* of the route table, and an asset that exists and one that does not
HeadPaths == {Root, AdminPage, ApiContact, AssetFile, AssetMissing}

\* the invocations explored: GET and POST of every path and HEAD of
\* HeadPaths with nothing failing, the route's own failures for a POST to
\* the route table's path, and a rejecting serverless handler ("before" or
\* "after" the response was sent) for one page request and one API request
Inputs ==
    { Input(m, p, NoErr, "none") : m \in Methods \ {"HEAD"}, p \in Paths }
    \cup { Input("HEAD", p, NoErr, "none") : p \in HeadPaths }
    \cup { Input("POST", ApiContact, e, "none") : e \in RouteFaults }
    \cup { Input("GET", Root, NoErr, hf) : hf \in {"before", "after"} }
    \cup { Input("POST", ApiContact, NoErr, hf) : hf \in {"before", "after"} }

\* the inner catch of part_000 (lines 205-211) answers when nothing was sent
InnerCatch(in) ==
    [method |-> in.method, path |-> in.path,
     res |-> Response(500, "Handler error", "json", "innerCatch"),
     via |-> "innerCatch", err |-> NoErr, sends |-> 1, failed |-> TRUE]

\* the app's answer to an input
AppAnswer(in, stk, f) ==
    LET rq == [method |-> in.method, path |-> in.path, fault |-> in.fault]
        w  == HandleRequest(stk, rq, f)
    IN  [method |-> in.method, path |-> in.path,
         res |-> w.res, via |-> "app", err |-> w.err, sends |-> w.sends,
         failed |-> in.handlerFault = "after"]

\* nothing answers: the rejection leaves vercelHandler
Unanswered(in) ==
    [method |-> in.method, path |-> in.path, res |-> NoResponse,
     via |-> "none", err |-> NoErr, sends |-> 0, failed |-> TRUE]

\* mutant: the failure handling drops the memo so that the next request
\* initializes again
ForgetOnFailure(promise) == "null"

\* the catch blocks around handler(req, res) assign no module-scope variable
AfterFailure(promise) == promise

\* the call of the serverless handler and the catch blocks around it.
\* part_000 awaits the call inside a try, so its inner catch sees a
\* rejection; index.ts 197 returns the promise without awaiting it and
\* index.ts 85 has no try at all, so there a rejection leaves vercelHandler.
HandlerOutcome(v, in, stk, f) ==
    IF in.handlerFault # "before" THEN AppAnswer(in, stk, f)
    ELSE IF v = "promiseDb" THEN InnerCatch(in)
    ELSE Unanswered(in)

\* the rejection of the serverless handler is the result of vercelHandler
Escapes(v, out) == out.failed /\ v # "promiseDb"

\* handler(req, res): the Express app answers the request.  The method and
\* path of the request are first read here.
Dispatch(r) ==
    /\ req[r].pc = "dispatching"
    /\ IF variant \in FlagVariants /\ ~handlerPromise
       THEN /\ req' = SetPc(r, "rejected")
            /\ last' = NoAnswer
            /\ UNCHANGED initializationPromise
       ELSE \E in \in Inputs :
            \E out \in {HandlerOutcome(variant, in, stack, fs)} :
                /\ last' = out
                /\ req' = [req EXCEPT
                     ![r].pc = IF Escapes(variant, out)
                               THEN "rejected" ELSE "done",
                     ![r].answered = out.sends > 0]
                /\ initializationPromise' =
                     IF out.failed THEN AfterFailure(initializationPromise)
                     ELSE initializationPromise
    /\ UNCHANGED sessVars
    /\ UNCHANGED clientVars
    /\ UNCHANGED <<variant, hasDatabase, fs, fsChanged, stack,
                   handler, appInitialized,
                   handlerPromise, initPc, initCalls, bodyRuns, outcome,
                   initFs, markerWrites, handlerWrites>>

\* the build output on disk changes while the process is warm: index.html
\* is removed or restored, or a missing build is deployed
BuildChange ==
    /\ ~fsChanged
    /\ fs' = IF fs.dist THEN [fs EXCEPT !.index = ~fs.index]
             ELSE FullBuild
    /\ fsChanged' = TRUE
    /\ last' = NoAnswer
    /\ UNCHANGED sessVars
    /\ UNCHANGED clientVars
    /\ UNCHANGED <<variant, hasDatabase, stack, initializationPromise, handler,
                   appInitialized, handlerPromise, initPc, initCalls, bodyRuns,
                   outcome, initFs, req, markerWrites, handlerWrites>>

Next ==
    \/ \E r \in Reqs : Arrive(r)
    \/ InitImported
    \/ InitRegistered
    \/ InitSettle
    \/ \E r \in Reqs : FlagRegistered(r)
    \/ \E r \in Reqs : FlagCreateHandler(r)
    \/ \E r \in Reqs : Resume(r)
    \/ \E r \in Reqs : Dispatch(r)
    \/ BuildChange

Spec == Init /\ [][Next]_vars

\* the promise-memoized revisions on their own, with every awaited step
\* settling: the dynamic import, registerRoutes, the .then/.catch chain,
\* `await initializationPromise` and the call of the serverless handler
InitPromise == Init /\ variant \in PromiseVariants

NextPromise ==
    \/ \E r \in Reqs : Arrive(r)
    \/ InitImported
    \/ InitRegistered
    \/ InitSettle
    \/ \E r \in Reqs : Resume(r)
    \/ \E r \in Reqs : Dispatch(r)
    \/ BuildChange

AwaitsSettle ==
    /\ WF_vars(InitImported)
    /\ WF_vars(InitRegistered)
    /\ WF_vars(InitSettle)
    /\ \A r \in Reqs : WF_vars(Resume(r)) /\ WF_vars(Dispatch(r))

LiveSpec == InitPromise /\ [][NextPromise]_vars /\ AwaitsSettle

\* ---------------------------------------------- admin session operations
\* login: on success a new token is minted and persisted with the admin
\* identifier and an absolute expiry; every failure looks the same
Login(username, password) ==
    /\ IF Authenticates(username, password) /\ minted < MaxTokens
       THEN LET new == Session(NextToken(minted), username,
                               clock + SessionTtl)
            IN  /\ minted' = minted + 1
                /\ sessions' = sessions \cup {new}
                /\ issued' = issued \cup {new}
                /\ sres' = SessionResult("login", new.token, username, TRUE)
       ELSE /\ sres' = SessionResult("login", 0, "", FALSE)
            /\ UNCHANGED <<minted, sessions, issued>>
    /\ UNCHANGED <<clock, revoked>>
    /\ UNCHANGED adapterVars
    /\ UNCHANGED clientVars

\* validation of a bearer token: the admin identity is attached on success
Validate(token) ==
    /\ LET found == ValidSessions(sessions, token, clock)
       IN  sres' = IF found = {}
                   THEN SessionResult("validate", token, "", FALSE)
                   ELSE SessionResult("validate", token,
                                      (CHOOSE s \in found : TRUE).admin, TRUE)
    /\ UNCHANGED <<sessions, clock, minted, revoked, issued>>
    /\ UNCHANGED adapterVars
    /\ UNCHANGED clientVars

\* logout: never an error, whether or not the session exists
Logout(token) ==
    /\ sessions' = Revoke(sessions, token)
    /\ revoked' = IF token \in 1..minted THEN revoked \cup {token} ELSE revoked
    /\ sres' = SessionResult("logout", token, "", LogoutOk(sessions, token))
    /\ UNCHANGED <<clock, minted, issued>>
    /\ UNCHANGED adapterVars
    /\ UNCHANGED clientVars

\* time passes
Tick ==
    /\ clock < MaxClock
    /\ clock' = clock + 1
    /\ sres' = NoSessionResult
    /\ UNCHANGED <<sessions, minted, revoked, issued>>
    /\ UNCHANGED adapterVars
    /\ UNCHANGED clientVars

\* the cleanup sweep removes the expired records
Cleanup ==
    /\ sessions' = Sweep(sessions, clock)
    /\ sres' = NoSessionResult
    /\ UNCHANGED <<clock, minted, revoked, issued>>
    /\ UNCHANGED adapterVars
    /\ UNCHANGED clientVars

SessionNext ==
    \/ \E u \in Usernames, pw \in Passwords : Login(u, pw)
    \/ \E t \in Tokens : Validate(t)
    \/ \E t \in Tokens : Logout(t)
    \/ Tick
    \/ Cleanup

\* the session manager on its own, next to a cold adapter
SessionStart == Init /\ variant = "promiseDb" /\ hasDatabase /\ fs = FullBuild

SessionSpec == SessionStart /\ [][SessionNext]_vars

\* ------------------------------------------------------- client actions
\* fetchWithTimeout(url, options, timeout) is called by the default queryFn:
\* the fetch is started and the timer is set
StartQuery(ms) ==
    /\ fetchState = "idle"
    /\ timeout' = ms
    /\ fetchState' = "pending"
    /\ timerState' = "armed"
    /\ UNCHANGED <<first, fetched, raceOutcome, raceSettles,
                   delivered, call>>
    /\ UNCHANGED <<adapterVars, sessVars>>

\* the fetch settles, with a response or a rejection
FetchSettles(got) ==
    /\ fetchState = "pending"
    /\ fetchState' = "settled"
    /\ fetched' = got
    /\ first' = IF first = "none" THEN "fetch" ELSE first
    /\ raceOutcome' = RaceSettle(raceOutcome, got)
    /\ raceSettles' = IF raceOutcome' # raceOutcome THEN raceSettles + 1
                      ELSE raceSettles
    /\ UNCHANGED <<timeout, timerState, delivered, call>>
    /\ UNCHANGED <<adapterVars, sessVars>>

\* the timer fires (it is never cleared) and rejects its promise
TimerFires ==
    /\ timerState = "armed"
    /\ timerState' = "fired"
    /\ first' = IF first = "none" THEN "timer" ELSE first
    /\ raceOutcome' = RaceSettle(raceOutcome, Rejected(TimeoutMessage(timeout)))
    /\ raceSettles' = IF raceOutcome' # raceOutcome THEN raceSettles + 1
                      ELSE raceSettles
    /\ UNCHANGED <<timeout, fetchState, fetched, delivered, call>>
    /\ UNCHANGED <<adapterVars, sessVars>>

\* `await fetchWithTimeout(...)` resumes and the queryFn returns or throws
Deliver ==
    /\ raceOutcome # Pending
    /\ delivered = Pending
    /\ delivered' = QueryFn(raceOutcome)
    /\ UNCHANGED <<timeout, fetchState, timerState, first, fetched,
                   raceOutcome, raceSettles, call>>
    /\ UNCHANGED <<adapterVars, sessVars>>

\* apiRequest(method, url, data) runs to completion
CallApiRequest(got) ==
    /\ call' = [fn |-> "apiRequest", on401 |-> "", got |-> got,
                out |-> ApiRequest(got)]
    /\ UNCHANGED <<timeout, fetchState, timerState, first, fetched,
                   raceOutcome, raceSettles, delivered>>
    /\ UNCHANGED <<adapterVars, sessVars>>

\* the function made by getQueryFn({ on401 }) runs to completion
CallGetQueryFn(on401, got) ==
    /\ call' = [fn |-> "getQueryFn", on401 |-> on401, got |-> got,
                out |-> GetQueryFn(on401, got)]
    /\ UNCHANGED <<timeout, fetchState, timerState, first, fetched,
                   raceOutcome, raceSettles, delivered>>
    /\ UNCHANGED <<adapterVars, sessVars>>

ClientNext ==
    \/ \E ms \in Timeouts : StartQuery(ms)
    \/ \E got \in FetchOutcomes : FetchSettles(got)
    \/ TimerFires
    \/ Deliver
    \/ \E got \in FetchOutcomes : CallApiRequest(got)
    \/ \E on401 \in {"returnNull", "throw"}, got \in FetchOutcomes :
            CallGetQueryFn(on401, got)

\* the browser client on its own
ClientSpec == SessionStart /\ [][ClientNext]_vars

\* ------------------------------------------------------- response bodies
\* the keys of the JSON object a response carries ({} when the body is not
\* JSON), by the stage that wrote it and the revision deployed
JsonKeys(v, res) ==
    CASE res.ctype # "json" -> {}
      [] res.by = "apiFallback" -> {"error", "message"}
      [] res.by = "catchAll" ->
            IF v = "promiseDb" /\ res.body = "Application not built correctly"
            THEN {"error", "message"} ELSE {"error"}
      [] res.by = "errorHandler" ->
            IF v \in PromiseVariants THEN {"error"} ELSE {"message"}
      [] res.by = "innerCatch" -> {"error"}
      [] res.by = "outerCatch" ->
            IF v = "promiseDb" THEN {"error", "message", "hint"}
            ELSE {"error", "message"}
      [] OTHER -> {"data"}

\* what a body discloses of the inside of the server: "fsPath" for an
\* absolute path of the deployment, "rawError" for the message of the
\* exception that was caught
Discloses(v, res) ==
    CASE res.by = "apiFallback" /\ res.body = "Server configuration error" ->
            {"rawError"}
      [] res.by = "catchAll" /\ v = "promiseDb"
            /\ res.body = "Application not built correctly" -> {"fsPath"}
      [] res.by = "errorHandler" -> {"rawError"}
      [] res.by = "outerCatch" -> {"rawError"}
      [] OTHER -> {}

\* =============================================================== claims
IsApiPath(p) == StartsWith(p, ApiPrefix)

Dispatched(r) == req[r].pc \in {"dispatching", "done"}

NoDuplicateLayers ==
    \A i, j \in 1..Len(stack) : i # j => stack[i] # stack[j]

\* the step just taken sent an answer from the Express app (not from a catch
\* block of vercelHandler)
ByApp == last.via = "app"

\* the stack holds a real route that matches the answered request
MatchesRealRoute ==
    \E i \in 1..Len(stack) :
        /\ stack[i].kind = "route"
        /\ RouteMatches(stack[i], [method |-> last.method, path |-> last.path])

\* C1: in the promise-memoized revisions initializeApp is invoked at most
\* once, whatever the number and interleaving of requests, and nothing is
\* registered on the Express app twice.
C1_InitAtMostOnce ==
    variant \in PromiseVariants =>
        /\ initCalls <= 1
        /\ bodyRuns <= 1
        /\ NoDuplicateLayers

\* two requests wait on the same in-flight initialization
C1_Witness ==
    /\ variant \in PromiseVariants
    /\ initializationPromise = "pending"
    /\ req[1].pc = "awaiting"
    /\ req[2].pc = "awaiting"
    /\ initCalls = 1

\* C2 (as claimed): in the flag-guarded revisions the body of initializeApp
\* executes at most once per process, even when requests arrive before the
\* first call has finished.
C2_FlagBodyAtMostOnce ==
    variant \in FlagVariants => bodyRuns <= 1

\* C3: in the promise-memoized revisions a request is dispatched only after
\* the single initialization has settled, every dispatched request saw the
\* same outcome, and neither the outcome nor the middleware stack changes
\* once initialization has settled.
C3_DispatchAfterSettled ==
    /\ [](variant \in PromiseVariants =>
            \A r \in Reqs : Dispatched(r) =>
                /\ initPc = "settled"
                /\ initializationPromise \in {"resolved", "rejected"}
                /\ outcome # "undecided"
                /\ req[r].seen = outcome)
    /\ [][(variant \in PromiseVariants /\ outcome # "undecided") =>
            outcome' = outcome]_vars
    /\ [][(variant \in PromiseVariants /\ initPc = "settled") =>
            stack' = stack]_vars

\* both requests were answered by the app after a route-load failure
C3_Witness ==
    /\ variant = "promiseDb"
    /\ outcome = "routeerr"
    /\ \A r \in Reqs : req[r].pc = "done" /\ req[r].seen = "routeerr"
    /\ ByApp

\* C4 (as claimed): without DATABASE_URL every request to a path that
\* begins with /api, the bare prefix included, is answered with the 500
\* configuration error.
C4_NoDbEveryApiPath500 ==
    (variant = "promiseDb" /\ ~hasDatabase /\ ByApp /\ IsApiPath(last.path)) =>
        /\ last.res.status = 500
        /\ last.res.body = "Database not configured"

C6_RouteFailureEveryApiPath500 ==
    (variant = "promiseDb" /\ outcome = "routeerr" /\ ByApp
     /\ IsApiPath(last.path)) =>
        /\ last.res.status = 500
        /\ last.res.by = "apiFallback"

\* the request went past every route and static layer to an SPA-serving
\* catch-all while index.html was on disk
ReachedSpaCatchAll ==
    /\ ByApp
    /\ last.res.by \in {"catchAll", "errorHandler", "finalhandler"}
    /\ fs.index
    /\ \E i \in 1..Len(stack) :
        /\ stack[i].kind = "catchAll"
        /\ stack[i].tag \in {"spaDb", "spaChecked", "spaExists", "spaAlways"}

\* C7 (as claimed): a request that reaches the catch-all gets exactly one
\* of three answers chosen by path prefix and method: /api... -> 404 "API
\* endpoint not found", other path with GET/HEAD -> the SPA document, other
\* path with another method -> 404 "Not found".
C7_CatchAllThreeOutcomes ==
    ReachedSpaCatchAll =>
        last.res = (IF IsApiPath(last.path) THEN ApiNotFound
                    ELSE IF IsPageMethod(last.method) THEN SpaDocument("catchAll")
                    ELSE NotFound)

C9_PostNonApi404 ==
    (ByApp /\ last.method = "POST" /\ ~IsApiPath(last.path)) =>
        /\ last.res.status = 404
        /\ last.res.body # "index.html"

\* index.html was missing when the promise-memoized initialization sampled
\* the build output (and the assets entry, if any, could be listed)
InitWithoutIndex ==
    /\ variant \in PromiseVariants
    /\ ByApp
    /\ initFs.assets # "unreadable"
    /\ ~initFs.index

ServedWithoutBuild ==
    /\ ByApp
    /\ ~fs.dist
    /\ ~fsChanged

\* C11 (as claimed): when dist/public is absent, initialization still
\* completes, a request that matches a registered API route is answered by
\* that route, and every request to a path outside /api is answered with
\* status 500 and a message saying that the application was not built (the
\* wording of either revision is accepted).
C11_NoBuildAnswered500 ==
    ServedWithoutBuild =>
        /\ (MatchesRealRoute /\ ~last.err.raised) => last.res.by = "route"
        /\ ~IsApiPath(last.path) =>
            /\ last.res.status = 500
            /\ last.res.body \in {NotBuilt.body, StaticNotFound.body}

\* C12 (as claimed): an error raised while the app handles a request
\* (thrown by an API route, or passed to next(err) by the catch-all) reaches
\* the Express error handler and, no response having been sent, is answered
\* with a JSON body: status err.status, else err.statusCode, else 500, and
\* message err.message, else "Internal Server Error".
C12_ErrorsReachErrorHandler ==
    (ByApp /\ last.err.raised /\ ~last.err.headersSent) =>
        last.res = Response(ErrorStatus(last.err), ErrorMessage(last.err),
                            "json", "errorHandler")

\* C13 (as claimed): at most one response is written for a request, whether
\* by a route or the catch-all, the Express error handler, the inner catch
\* or the outer catch: each of them writes only while nothing has been sent.
C13_AtMostOneResponse ==
    last.sends <= 1

\* C14 (as claimed): with every awaited step settling, every invocation of
\* vercelHandler in the promise-memoized revisions eventually sends a
\* response; an invocation that finds no handler after initialization has
\* settled is answered by the outer catch with status 500.
C14_EveryInvocationAnswered ==
    /\ \A r \in Reqs : (req[r].pc = "awaiting") ~> req[r].answered
    /\ [][\A r \in Reqs :
            (/\ req[r].pc = "awaiting"
             /\ Settled(initializationPromise)
             /\ ~handler
             /\ req'[r].pc # "awaiting") =>
                /\ req'[r].answered
                /\ last'.via = "outerCatch"
                /\ last'.res.status = 500]_vars

\* initializeApp itself rejected, outside the guarded loading of the routes
\* (and, in part_000, the handler could be constructed afterwards)
InitBodyRejected ==
    \/ variant = "promisePlain" /\ outcome = "failed"
    \/ /\ variant = "promiseDb"
       /\ bodyRuns = 1
       /\ ~StaticPartDb(initFs).ok
       /\ initializationPromise = "resolved"

\* C15 (as claimed): after initializeApp has rejected, the handler is still
\* created and requests are answered by the Express app, not by the generic
\* 500 of the outer catch; a GET outside /api is answered with the SPA
\* document or a JSON diagnostic.
C15_InitRejectionNotFatal ==
    (InitBodyRejected /\ last.via # "") =>
        /\ handler
        /\ last.via \in {"app", "innerCatch"}
        /\ (ByApp /\ last.method = "GET" /\ ~IsApiPath(last.path)) =>
            \/ last.res = SpaDocument("catchAll")
            \/ last.res.ctype = "json"

\* C16: a step in which the handling of a request fails (the serverless
\* handler rejects, before or after a response was written) changes no
\* process-lifetime state: the initialization marker, the handler, the
\* middleware stack and the counts of initializations stay as they were, so
\* the next request is dispatched against the same application.
C16_FailureChangesNothing ==
    [][last'.failed =>
        /\ initializationPromise' = initializationPromise
        /\ handler' = handler
        /\ appInitialized' = appInitialized
        /\ handlerPromise' = handlerPromise
        /\ stack' = stack
        /\ initCalls' = initCalls
        /\ bodyRuns' = bodyRuns]_vars

\* the second request's handler rejected after the first had been served,
\* and the one initialization and its handler are still in place
C16_Witness ==
    /\ variant = "promiseDb"
    /\ req[1].pc = "done"
    /\ req[2].pc = "done"
    /\ last.failed
    /\ last.via = "innerCatch"
    /\ initializationPromise = "resolved"
    /\ handler
    /\ initCalls = 1

\* C17 (as claimed): the initialization marker and the route-dispatch
\* handler are each assigned at most once in the lifetime of the process,
\* under every interleaving of requests.
C17_WrittenAtMostOnce ==
    /\ markerWrites <= 1
    /\ handlerWrites <= 1

\* C18 (as claimed): no response body discloses an internal filesystem
\* path or the raw message of an internal error, whatever the error outcome.
C18_NoInternalDetail ==
    last.via # "" => Discloses(variant, last.res) = {}

\* C19 (as claimed): every response with status 400 or above, from any
\* stage, is a JSON object that has a string `error` or `message` field.
C19_ErrorsAreJson ==
    (last.via # "" /\ last.res.status >= 400) =>
        /\ last.res.ctype = "json"
        /\ JsonKeys(variant, last.res) \cap {"error", "message"} # {}

\* C20: a login with a correct username and password returns a token; a
\* validation of that token as the very next operation succeeds and
\* resolves to the admin who logged in; and once the token has been logged
\* out, no validation of it succeeds, whatever other sessions were logged in
\* or out in between.
C20_LoginValidateLogout ==
    /\ [][\A u \in Usernames, pw \in Passwords :
            (Authenticates(u, pw) /\ minted < MaxTokens /\ Login(u, pw)) =>
                /\ sres'.ok
                /\ sres'.token \in 1..MaxTokens
                /\ sres'.admin = u]_vars
    /\ [][(sres.op = "login" /\ sres.ok /\ Validate(sres.token)) =>
            (sres'.ok /\ sres'.admin = sres.admin)]_vars
    /\ []((sres.op = "validate" /\ sres.token \in revoked) => ~sres.ok)

\* a token was logged out while another session is still live, and its
\* validation has just failed
C20_Witness ==
    /\ sres = SessionResult("validate", 1, "", FALSE)
    /\ 1 \in revoked
    /\ \E s \in sessions : s.token # 1 /\ Live(s, clock)

\* the session record of the answered validation is still in the store and
\* its expiry has passed
ValidatedExpiredRecord ==
    /\ sres.op = "validate"
    /\ \E s \in Lookup(sessions, sres.token) : clock > s.expiry

\* C21: a validation of a token whose stored expiry is earlier than the
\* current time fails even though the session record is still in the store;
\* it does not take a cleanup sweep to make it fail.
C21_ExpiryCheckedAtValidation ==
    ValidatedExpiredRecord => ~sres.ok

\* the expired record of token 1 is still stored and its validation failed
C21_Witness ==
    /\ ValidatedExpiredRecord
    /\ sres = SessionResult("validate", 1, "", FALSE)

\* C22: logout is never an error, and logging out a token that has just
\* been logged out, or that has no session, leaves the store as it was.
C22_LogoutIdempotent ==
    /\ [][\A t \in Tokens : Logout(t) =>
            /\ sres'.ok
            /\ Revoke(sessions', t) = sessions']_vars
    /\ [][\A t \in Tokens :
            (Logout(t) /\ (Lookup(sessions, t) = {}
                           \/ (sres.op = "logout" /\ sres.token = t))) =>
                sessions' = sessions]_vars

\* a token that never had a session was logged out, without error, while
\* the sessions of two earlier logins are still stored
C22_Witness ==
    /\ sres = SessionResult("logout", 0, "", TRUE)
    /\ Cardinality(sessions) = 2
    /\ revoked = {}

\* the token was revoked by a logout, or the current time has passed the
\* expiry it was issued with
Dead(t) ==
    \/ t \in revoked
    \/ \E s \in issued : s.token = t /\ clock > s.expiry

\* C23: a token that has been revoked or has expired stays so, and no
\* validation of it succeeds, whatever operations follow (validations,
\* further logins of the same admin, logouts, cleanup sweeps).
C23_DeadStaysDead ==
    /\ [][\A t \in Tokens : Dead(t) => Dead(t)']_vars
    /\ [](\A t \in Tokens :
            (Dead(t) /\ sres.op = "validate" /\ sres.token = t) => ~sres.ok)

\* alice's first token was revoked, she logged in again, and the first
\* token still fails validation
C23_Witness ==
    /\ 1 \in revoked
    /\ \E s \in sessions : s.admin = "alice" /\ s.token # 1 /\ Live(s, clock)
    /\ \E s \in issued : s.admin = "alice" /\ s.token = 1
    /\ sres = SessionResult("validate", 1, "", FALSE)

\* the place of a layer in the order API routes (or their fallback), static
\* serving, catch-all, error handler; the layers registered at module load
\* come before all of them
Rank(layer) ==
    CASE layer.kind \in {"route", "apiFallback"} -> 1
      [] layer.kind = "static" \/ layer = AssetsLogger -> 2
      [] layer.kind = "catchAll" -> 3
      [] layer.kind = "errorHandler" -> 4
      [] OTHER -> 0

\* the stack holds a 500 fallback for the API that matches the answered path
MatchesApiFallback ==
    \E i \in 1..Len(stack) :
        stack[i].kind = "apiFallback" /\ MatchApiStar(last.path)

\* C24 (as claimed): the layers are registered in the order API routes (or
\* their 500 fallback), static serving, catch-all, error handler: no layer
\* is followed by a layer of an earlier kind, so the error handler comes
\* after every route and middleware; and a request matched by an API route
\* or by the API fallback is never answered by the catch-all.
C24_RegistrationOrder ==
    /\ \A i, j \in 1..Len(stack) : i < j => Rank(stack[i]) <= Rank(stack[j])
    /\ (ByApp /\ (MatchesRealRoute \/ MatchesApiFallback)) =>
            last.res.by # "catchAll"

\* C25: fetchWithTimeout settles exactly once, with whichever of the fetch
\* and the timer happens first: the fetch's own result when the fetch is
\* first, the rejection "Request timeout after <timeout>ms" when the timer
\* is first. The event that comes second changes neither the settled
\* promise nor what the query was handed.
C25_FirstEventWins ==
    /\ [](raceSettles <= 1)
    /\ [](first = "none" <=> raceOutcome = Pending)
    /\ [](first # "none" => raceSettles = 1)
    /\ [](first = "fetch" => raceOutcome = fetched)
    /\ [](first = "timer" => raceOutcome = Rejected(TimeoutMessage(timeout)))
    /\ [][raceOutcome # Pending => raceOutcome' = raceOutcome]_vars
    /\ [][delivered # Pending => delivered' = delivered]_vars

\* the timer fired first, the query was handed the timeout error, and the
\* fetch then came back with a good response
C25_Witness ==
    /\ first = "timer"
    /\ timerState = "fired"
    /\ fetchState = "settled"
    /\ fetched = Resolved(HttpResponse(200, JsonText))
    /\ timeout = DefaultTimeout
    /\ delivered = Rejected(<<"Request timeout after ", 10000, "ms">>)

\* C26: apiRequest resolves with the response exactly when its status is
\* 2xx, and then with that very response; for any other status it rejects
\* with an Error whose message is "<status>: <text>", the text being the
\* body, or the status text when the body is empty.
C26_ApiRequestOkOrThrows ==
    (call.fn = "apiRequest" /\ call.got.kind = "resolved") =>
        LET res == call.got.value
            text == IF res.body = "" THEN res.statusText ELSE res.body
        IN  /\ call.out.kind = "resolved" <=> res.status \in 200..299
            /\ call.out.kind = "resolved" => call.out.value = res
            /\ call.out.kind # "resolved" =>
                   call.out = Rejected(<<res.status, ": ", text>>)

\* a 404 without a body was rejected with the status text in the message
C26_Witness ==
    /\ call.fn = "apiRequest"
    /\ call.got = Resolved(HttpResponse(404, ""))
    /\ call.out = Rejected(<<404, ": ", "Not Found">>)

\* C27: the function made by getQueryFn answers a 401 with null under
\* on401 = "returnNull" and with a rejection under "throw"; any other
\* non-2xx status rejects under both settings, with the throwIfResNotOk
\* message; a 2xx response whose body is JSON resolves to the parsed body
\* under both settings.
C27_On401Behaviour ==
    (call.fn = "getQueryFn" /\ call.got.kind = "resolved") =>
        LET res == call.got.value
            text == IF res.body = "" THEN res.statusText ELSE res.body
            thrown == Rejected(<<res.status, ": ", text>>)
        IN  /\ (res.status = 401 /\ call.on401 = "returnNull") =>
                   call.out = Resolved("null")
            /\ (res.status = 401 /\ call.on401 = "throw") => call.out = thrown
            /\ (res.status \notin 200..299 /\ res.status # 401) =>
                   call.out = thrown
            /\ (res.status \in 200..299 /\ res.body = JsonText) =>
                   call.out = Resolved([ok |-> TRUE])

\* a 401 was turned into null under "returnNull"
C27_Witness ==
    /\ call.fn = "getQueryFn"
    /\ call.on401 = "returnNull"
    /\ call.got = Resolved(HttpResponse(401, "plain text"))
    /\ call.out = Resolved("null")

\* part_000 has finished registering its static part and the step just
\* taken is an answer of the Express app to a request outside /api
SampledAtInit ==
    /\ variant = "promiseDb"
    /\ ByApp
    /\ initFs.assets # "unreadable"
    /\ ~IsApiPath(last.path)

C29_ApiTestsAgree ==
    (variant = "promiseDb" /\ ByApp) =>
        /\ MatchApiStar(last.path) <=> StartsWith(last.path, ApiPrefix)
        /\ MatchApiStar(last.path) <=>
               StartsWith(StarReqPath(last.path), ApiPrefix)

====
